---- MODULE Spec2Model ----
(***************************************************************************)
(* Model of RAG/cohere_pubmed_RAG_v2.py: the Documents build pipeline      *)
(* (load, embed, index), Documents.retrieve and the Chatbot turn           *)
(* (generate_response, retrieve_docs).                                     *)
(*                                                                         *)
(* Lists are 1-based sequences; a passage position p of the program is the *)
(* sequence index p + 1.  The labels handed to the vector index are kept   *)
(* 0-based, as list(range(...)) produces them.                             *)
(***************************************************************************)
EXTENDS Integers, Sequences, FiniteSets, TLC

VARIABLES
    doc,            \* content of datasets/xray_articles.json, a list of articles
    max_arg,        \* the max_articles argument load was called with
    max_articles,   \* load's local countdown
    li,             \* load's iterator over doc (next article, 1-based)
    docs,           \* self.docs
    docs_embs,      \* self.docs_embs
    docs_len,       \* self.docs_len
    i,              \* embed's loop variable (0-based passage offset)
    embed_calls,    \* build-time co.embed calls issued so far: [off, n]
    index,          \* self.index (the hnswlib index)
    pc,             \* position of the single thread of control
    error,          \* origin of the exception that ended the last operation
    search_queries, \* response.search_queries of the current turn
    queries,        \* retrieve_docs' local list of query texts
    qi,             \* retrieve_docs' iterator over queries (1-based)
    query_emb,      \* retrieve's query_emb
    knn_k,          \* k of the last index.knn_query call (-1: none yet)
    doc_ids,        \* retrieve's doc_ids
    rerank_n,       \* top_n of the last co.rerank call (-1: none yet)
    rerank_results, \* retrieve's rerank_results (candidate indices, 0-based)
    docs_retrieved, \* value returned by the last completed retrieve
    retrieve_log,   \* this turn's retrieve calls that returned: [query, result]
    retrieved_docs, \* retrieve_docs' accumulator
    chat_calls      \* this turn's co.chat calls: [kind, given, documents]

vars == <<doc, max_arg, max_articles, li, docs, docs_embs, docs_len, i,
          embed_calls, index, pc, error, search_queries, queries, qi,
          query_emb, knn_k, doc_ids, rerank_n, rerank_results, docs_retrieved,
          retrieve_log, retrieved_docs, chat_calls>>

(***************************************************************************)
(* Program constants.                                                      *)
(***************************************************************************)
retrieve_top_k == 500
rerank_top_k == 100
batch_size == 90
DefaultMaxArticles == 500

(***************************************************************************)
(* Bounds of the model.                                                    *)
(***************************************************************************)
MaxDocs == 3
MaxQueries == 2

\* Numbers of text sections an article of the collection may have.
SectionCounts == {0, 1, 90, 250}
\* Values of load's max_articles argument.
MaxArticlesArgs == {0, 1, DefaultMaxArticles}
\* Query texts the chat capability hands back, in this order.
QueryPool == <<"q1", "q2", "q3", "q4">>

Min(a, b) == IF a <= b THEN a ELSE b

\* Python's range(n) as a list.
Range(n) == [j \in 1..n |-> j - 1]

\* Python's s[a:b] for 0 <= a <= b <= len(s).
Slice(s, a, b) == SubSeq(s, a + 1, b)

(***************************************************************************)
(* The document collection read at line 30-31: a list of articles, each    *)
(* with a Title and a list FullText of text sections.  Titles are shared   *)
(* between articles (the first and third article have the same title);     *)
(* section texts are pairwise distinct.                                    *)
(***************************************************************************)
TitleOf(a) == IF a % 2 = 1 THEN "A" ELSE "B"

Article(a, n) ==
    [Title |-> TitleOf(a), FullText |-> [s \in 1..n |-> <<a, s>>]]

Collections ==
    { [a \in DOMAIN shape |-> Article(a, shape[a])] :
        shape \in UNION { [1..n -> SectionCounts] : n \in 0..MaxDocs } }

(***************************************************************************)
(* The backend's embed capability (called at lines 60-64 and 90-94): one   *)
(* vector per input text, in the order of the texts.  A vector is          *)
(* identified by the text and the input type it was computed from.         *)
(***************************************************************************)
Embedding(text, input_type) == <<input_type, text>>

CoEmbed(texts, input_type) ==
    [j \in 1..Len(texts) |-> Embedding(texts[j], input_type)]

NoIndex == [init |-> FALSE, max_elements |-> 0, labels |-> <<>>, items |-> <<>>]

Init ==
    /\ doc \in Collections
    /\ max_arg \in MaxArticlesArgs
    /\ max_articles = max_arg
    /\ li = 1
    /\ docs = <<>>
    /\ docs_embs = <<>>
    /\ docs_len = 0
    /\ i = 0
    /\ embed_calls = <<>>
    /\ index = NoIndex
    /\ pc = "load"
    /\ error = "none"
    /\ search_queries = <<>>
    /\ queries = <<>>
    /\ qi = 1
    /\ query_emb = <<>>
    /\ knn_k = -1
    /\ doc_ids = <<>>
    /\ rerank_n = -1
    /\ rerank_results = <<>>
    /\ docs_retrieved = <<>>
    /\ retrieve_log = <<>>
    /\ retrieved_docs = <<>>
    /\ chat_calls = <<>>

buildVars == <<max_articles, li, docs, docs_embs, docs_len, i, embed_calls, index>>
turnVars == <<search_queries, queries, qi, query_emb, knn_k, doc_ids, rerank_n,
              rerank_results, docs_retrieved, retrieve_log, retrieved_docs,
              chat_calls>>

(***************************************************************************)
(* Documents.load                                                          *)
(***************************************************************************)
\* Lines 36-43: the passages of one article, each with the article's title.
ArticlePassages(article) ==
    [s \in 1..Len(article.FullText) |->
        [title |-> article.Title, text |-> article.FullText[s]]]

\* Mutant of LoadBreak: the countdown is tested one too early.
LoadBreakOffByOne(m) == m = 1

\* Line 34: the test that ends the loop over the articles.
LoadBreak(m) == m = 0

\* Lines 33-45, one iteration of the loop over the articles.
LoadArticle ==
    /\ pc = "load"
    /\ li <= Len(doc)
    /\ ~LoadBreak(max_articles)
    /\ docs' = docs \o ArticlePassages(doc[li])
    /\ max_articles' = max_articles - 1
    /\ li' = li + 1
    /\ UNCHANGED <<doc, max_arg, docs_embs, docs_len, i, embed_calls, index,
                   pc, error>>
    /\ UNCHANGED turnVars

\* Lines 33-35: the loop ends, on the last article or on the break.
LoadExit ==
    /\ pc = "load"
    /\ (li > Len(doc) \/ LoadBreak(max_articles))
    /\ pc' = "embed"
    /\ UNCHANGED <<doc, max_arg, error>>
    /\ UNCHANGED buildVars
    /\ UNCHANGED turnVars

(***************************************************************************)
(* Documents.embed                                                         *)
(***************************************************************************)
\* Lines 54-55.
EmbedStart ==
    /\ pc = "embed"
    /\ docs_len' = Len(docs)
    /\ i' = 0
    /\ pc' = "embed_loop"
    /\ UNCHANGED <<doc, max_arg, max_articles, li, docs, docs_embs,
                   embed_calls, index, error>>
    /\ UNCHANGED turnVars

\* Line 58: the end of the batch that starts at offset off.
BatchEnd(off, n) == Min(off + batch_size, n)

\* Lines 58-59: the texts of the batch that starts at offset off.
BatchTexts(off) ==
    LET batch == Slice(docs, off, BatchEnd(off, docs_len))
    IN  [j \in 1..Len(batch) |-> batch[j].text]

\* Mutant of ExtendEmbs: each batch goes in front of the earlier ones.
ExtendEmbsPrepend(embs, batch) == batch \o embs

\* Line 65.
ExtendEmbs(embs, batch) == embs \o batch

\* Lines 57-65, one iteration whose backend call returns.
EmbedBatch ==
    /\ pc = "embed_loop"
    /\ i < docs_len
    /\ embed_calls' = Append(embed_calls, [off |-> i, n |-> Len(BatchTexts(i))])
    /\ docs_embs' = ExtendEmbs(docs_embs, CoEmbed(BatchTexts(i), "search_document"))
    /\ i' = i + batch_size
    /\ UNCHANGED <<doc, max_arg, max_articles, li, docs, docs_len, index, pc,
                   error>>
    /\ UNCHANGED turnVars

\* Mutant of EmbedBatchFail: the exception is swallowed and the loop goes on
\* to the next batch.
EmbedBatchSkipFailed ==
    /\ pc = "embed_loop"
    /\ i < docs_len
    /\ embed_calls' = Append(embed_calls, [off |-> i, n |-> Len(BatchTexts(i))])
    /\ i' = i + batch_size
    /\ error' = "EmbeddingBackendError"
    /\ UNCHANGED <<doc, max_arg, max_articles, li, docs, docs_embs, docs_len,
                   index, pc>>
    /\ UNCHANGED turnVars

\* Lines 57-64, one iteration whose backend call raises: nothing catches the
\* exception, it leaves embed and __init__.
EmbedBatchFail ==
    /\ pc = "embed_loop"
    /\ i < docs_len
    /\ embed_calls' = Append(embed_calls, [off |-> i, n |-> Len(BatchTexts(i))])
    /\ pc' = "failed"
    /\ error' = "EmbeddingBackendError"
    /\ UNCHANGED <<doc, max_arg, max_articles, li, docs, docs_embs, docs_len,
                   i, index>>
    /\ UNCHANGED turnVars

\* Line 57: range(0, docs_len, batch_size) is exhausted.
EmbedExit ==
    /\ pc = "embed_loop"
    /\ i >= docs_len
    /\ pc' = "index"
    /\ UNCHANGED <<doc, max_arg, error>>
    /\ UNCHANGED buildVars
    /\ UNCHANGED turnVars

(***************************************************************************)
(* Documents.index                                                         *)
(***************************************************************************)
\* Mutant of IndexLabels: labels counted from 1.
IndexLabelsFromOne(embs) == [j \in 1..Len(embs) |-> j]

\* Line 75: the labels handed to add_items.
IndexLabels(embs) == Range(Len(embs))

\* hnswlib's add_items reads an empty list as one vector of dimension 0 and
\* raises "Wrong dimensionality of the vectors"; it takes any non-empty list
\* of vectors that fits max_elements.
AddItemsAccepts(embs, max_elements) == Len(embs) > 0 /\ Len(embs) <= max_elements

\* Lines 73-75, add_items returns.
IndexBuild ==
    /\ pc = "index"
    /\ AddItemsAccepts(docs_embs, docs_len)
    /\ index' = [init |-> TRUE, max_elements |-> docs_len,
                 labels |-> IndexLabels(docs_embs), items |-> docs_embs]
    /\ pc' = "ready"
    /\ UNCHANGED <<doc, max_arg, max_articles, li, docs, docs_embs, docs_len,
                   i, embed_calls, error>>
    /\ UNCHANGED turnVars

\* Lines 73-75, add_items raises: the index was allocated (line 74) and
\* holds nothing; the exception leaves index and __init__.
IndexBuildFail ==
    /\ pc = "index"
    /\ ~AddItemsAccepts(docs_embs, docs_len)
    /\ index' = [init |-> TRUE, max_elements |-> docs_len,
                 labels |-> <<>>, items |-> <<>>]
    /\ pc' = "failed"
    /\ error' = "IndexError"
    /\ UNCHANGED <<doc, max_arg, max_articles, li, docs, docs_embs, docs_len,
                   i, embed_calls>>
    /\ UNCHANGED turnVars

(***************************************************************************)
(* Chatbot.generate_response, Chatbot.retrieve_docs, Documents.retrieve    *)
(***************************************************************************)
\* The search queries a chat call with search_queries_only=True may return.
SearchQueryLists ==
    { [j \in 1..n |-> [text |-> QueryPool[j]]] : n \in 0..MaxQueries }

\* Lines 205-207.
QueryTexts(sq) == [j \in 1..Len(sq) |-> sq[j].text]

\* Line 146 returns; then line 149 and, with search queries, lines 205-210.
\* Every local of the previous turn is gone.
TurnStart ==
    /\ pc = "ready"
    /\ \E sq \in SearchQueryLists :
        /\ search_queries' = sq
        /\ queries' = QueryTexts(sq)
        /\ pc' = IF sq # <<>> THEN "retrieve" ELSE "chat"
    /\ chat_calls' = <<[kind |-> "search_queries_only", given |-> FALSE,
                        documents |-> <<>>]>>
    /\ error' = "none"
    /\ qi' = 1
    /\ query_emb' = <<>>
    /\ knn_k' = -1
    /\ doc_ids' = <<>>
    /\ rerank_n' = -1
    /\ rerank_results' = <<>>
    /\ docs_retrieved' = <<>>
    /\ retrieve_log' = <<>>
    /\ retrieved_docs' = <<>>
    /\ UNCHANGED <<doc, max_arg>>
    /\ UNCHANGED buildVars

\* Line 146 raises: the exception leaves generate_response.
TurnStartFail ==
    /\ pc = "ready"
    /\ chat_calls' = <<[kind |-> "search_queries_only", given |-> FALSE,
                        documents |-> <<>>]>>
    /\ error' = "ChatBackendError"
    /\ search_queries' = <<>>
    /\ queries' = <<>>
    /\ qi' = 1
    /\ query_emb' = <<>>
    /\ knn_k' = -1
    /\ doc_ids' = <<>>
    /\ rerank_n' = -1
    /\ rerank_results' = <<>>
    /\ docs_retrieved' = <<>>
    /\ retrieve_log' = <<>>
    /\ retrieved_docs' = <<>>
    /\ UNCHANGED <<doc, max_arg, pc>>
    /\ UNCHANGED buildVars

\* Lines 211-212 enter retrieve for the next query; lines 89-94 return.
RetrieveEmbed ==
    /\ pc = "retrieve"
    /\ qi <= Len(queries)
    /\ docs_retrieved' = <<>>
    /\ query_emb' = CoEmbed(<<queries[qi]>>, "search_query")
    /\ pc' = "knn"
    /\ UNCHANGED <<doc, max_arg, error, search_queries, queries, qi, knn_k,
                   doc_ids, rerank_n, rerank_results, retrieve_log,
                   retrieved_docs, chat_calls>>
    /\ UNCHANGED buildVars

\* Lines 90-94 raise: the exception leaves retrieve, retrieve_docs and
\* generate_response.
RetrieveEmbedFail ==
    /\ pc = "retrieve"
    /\ qi <= Len(queries)
    /\ docs_retrieved' = <<>>
    /\ pc' = "ready"
    /\ error' = "EmbeddingBackendError"
    /\ UNCHANGED <<doc, max_arg, search_queries, queries, qi, query_emb, knn_k,
                   doc_ids, rerank_n, rerank_results, retrieve_log,
                   retrieved_docs, chat_calls>>
    /\ UNCHANGED buildVars

\* Line 96: the k handed to knn_query.
KnnK == retrieve_top_k

\* hnswlib's knn_query raises unless it finds k results for the query, and
\* an index holds no more results than it holds vectors.
KnnAccepts(k) == k <= Len(index.labels)

\* The results knn_query may give: k distinct labels of the index, here the
\* lowest k in increasing order or the highest k in decreasing order.
KnnOutcomes(k) ==
    LET n == Len(index.labels)
    IN  { [j \in 1..k |-> index.labels[j]],
          [j \in 1..k |-> index.labels[n + 1 - j]] }

\* Line 96, knn_query returns.
KnnQuery ==
    /\ pc = "knn"
    /\ KnnAccepts(KnnK)
    /\ knn_k' = KnnK
    /\ doc_ids' \in KnnOutcomes(KnnK)
    /\ pc' = "rerank"
    /\ UNCHANGED <<doc, max_arg, error, search_queries, queries, qi, query_emb,
                   rerank_n, rerank_results, docs_retrieved, retrieve_log,
                   retrieved_docs, chat_calls>>
    /\ UNCHANGED buildVars

\* Line 96, knn_query raises.
KnnQueryFail ==
    /\ pc = "knn"
    /\ ~KnnAccepts(KnnK)
    /\ knn_k' = KnnK
    /\ pc' = "ready"
    /\ error' = "IndexError"
    /\ UNCHANGED <<doc, max_arg, search_queries, queries, qi, query_emb,
                   doc_ids, rerank_n, rerank_results, docs_retrieved,
                   retrieve_log, retrieved_docs, chat_calls>>
    /\ UNCHANGED buildVars

\* Lines 98-100.
DocsToRerank(ids) == [j \in 1..Len(ids) |-> docs[ids[j] + 1].text]

\* Mutant of RerankTopN: the search depth is handed to rerank.
RerankTopNWide == retrieve_top_k

\* Line 105: the top_n handed to rerank.
RerankTopN == rerank_top_k

\* The results rerank may give for c candidates: the top_n best of them (all
\* of them when there are fewer), by candidate index, here the first ones in
\* input order or the last ones in reverse input order.
RerankOutcomes(c, top_n) ==
    LET m == Min(top_n, c)
    IN  { [j \in 1..m |-> [index |-> j - 1]],
          [j \in 1..m |-> [index |-> c - j]] }

\* Mutant of RerankedIds: a candidate index is taken for a position.
RerankedIdsDirect(ids, results) ==
    [j \in 1..Len(results) |-> results[j].index]

\* Lines 109-111.
RerankedIds(ids, results) ==
    [j \in 1..Len(results) |-> ids[results[j].index + 1]]

\* Lines 113-119.
Resolve(ids) ==
    [j \in 1..Len(ids) |->
        [title |-> docs[ids[j] + 1].title, text |-> docs[ids[j] + 1].text]]

\* Mutant of ExtendRetrieved: each result goes in front of the earlier ones.
ExtendRetrievedPrepend(acc, result) == result \o acc

\* Line 212.
ExtendRetrieved(acc, result) == acc \o result

\* Lines 98-121, rerank returns; retrieve returns to line 212, which extends
\* the accumulator and moves to the next query or leaves the loop.
Rerank ==
    /\ pc = "rerank"
    /\ rerank_n' = RerankTopN
    /\ rerank_results' \in RerankOutcomes(Len(DocsToRerank(doc_ids)), RerankTopN)
    /\ docs_retrieved' = Resolve(RerankedIds(doc_ids, rerank_results'))
    /\ retrieve_log' = Append(retrieve_log,
                              [query |-> queries[qi], result |-> docs_retrieved'])
    /\ retrieved_docs' = ExtendRetrieved(retrieved_docs, docs_retrieved')
    /\ qi' = qi + 1
    /\ pc' = IF qi + 1 <= Len(queries) THEN "retrieve" ELSE "chat"
    /\ UNCHANGED <<doc, max_arg, error, search_queries, queries, query_emb,
                   knn_k, doc_ids, chat_calls>>
    /\ UNCHANGED buildVars

\* Mutant of RerankFail: the failure is noted and the unranked candidates
\* are returned.
RerankFailFallback ==
    /\ pc = "rerank"
    /\ rerank_n' = RerankTopN
    /\ error' = "RerankBackendError"
    /\ docs_retrieved' = Resolve(doc_ids)
    /\ retrieve_log' = Append(retrieve_log,
                              [query |-> queries[qi], result |-> docs_retrieved'])
    /\ retrieved_docs' = ExtendRetrieved(retrieved_docs, docs_retrieved')
    /\ qi' = qi + 1
    /\ pc' = IF qi + 1 <= Len(queries) THEN "retrieve" ELSE "chat"
    /\ UNCHANGED <<doc, max_arg, search_queries, queries, query_emb, knn_k,
                   doc_ids, rerank_results, chat_calls>>
    /\ UNCHANGED buildVars

\* Lines 98-107, rerank raises: the exception leaves retrieve, retrieve_docs
\* and generate_response.
RerankFail ==
    /\ pc = "rerank"
    /\ rerank_n' = RerankTopN
    /\ pc' = "ready"
    /\ error' = "RerankBackendError"
    /\ UNCHANGED <<doc, max_arg, search_queries, queries, qi, query_emb, knn_k,
                   doc_ids, rerank_results, docs_retrieved, retrieve_log,
                   retrieved_docs, chat_calls>>
    /\ UNCHANGED buildVars

\* Lines 149-189: the final chat call, with documents=... in the branch
\* taken with search queries and without documents in the other.
FinalChatCall ==
    IF search_queries # <<>>
    THEN [kind |-> "final", given |-> TRUE, documents |-> retrieved_docs]
    ELSE [kind |-> "final", given |-> FALSE, documents |-> <<>>]

\* Lines 154-191, the chat call returns.
Chat ==
    /\ pc = "chat"
    /\ chat_calls' = Append(chat_calls, FinalChatCall)
    /\ pc' = "ready"
    /\ UNCHANGED <<doc, max_arg, error, search_queries, queries, qi, query_emb,
                   knn_k, doc_ids, rerank_n, rerank_results, docs_retrieved,
                   retrieve_log, retrieved_docs>>
    /\ UNCHANGED buildVars

\* Lines 154-189, the chat call raises.
ChatFail ==
    /\ pc = "chat"
    /\ chat_calls' = Append(chat_calls, FinalChatCall)
    /\ pc' = "ready"
    /\ error' = "ChatBackendError"
    /\ UNCHANGED <<doc, max_arg, search_queries, queries, qi, query_emb,
                   knn_k, doc_ids, rerank_n, rerank_results, docs_retrieved,
                   retrieve_log, retrieved_docs>>
    /\ UNCHANGED buildVars

Next ==
    \/ LoadArticle
    \/ LoadExit
    \/ EmbedStart
    \/ EmbedBatch
    \/ EmbedBatchFail
    \/ EmbedExit
    \/ IndexBuild
    \/ IndexBuildFail
    \/ TurnStart
    \/ TurnStartFail
    \/ RetrieveEmbed
    \/ RetrieveEmbedFail
    \/ KnnQuery
    \/ KnnQueryFail
    \/ Rerank
    \/ RerankFail
    \/ Chat
    \/ ChatFail

Spec == Init /\ [][Next]_vars

(***************************************************************************)
(* Properties                                                              *)
(***************************************************************************)
RECURSIVE SectionTotal(_, _)
\* The number of text sections of the first k articles of d.
SectionTotal(d, k) ==
    IF k = 0 THEN 0 ELSE SectionTotal(d, k - 1) + Len(d[k].FullText)

\* The number of articles load is to include.
Included == Min(max_arg, Len(doc))

\* The build-time embedding of the passage at 1-based index j.
DocEmbedding(j) == Embedding(docs[j].text, "search_document")

\* The number of batches n passages make.
BatchCount(n) == (n + batch_size - 1) \div batch_size

\* embed has sent every batch and every call has returned.
EmbedComplete ==
    /\ pc \notin {"load", "embed", "embed_loop"}
    /\ ~(pc = "failed" /\ error = "EmbeddingBackendError")

\* The last retrieve call of the turn returned and its locals still stand.
RetrieveReturned ==
    /\ retrieve_log # <<>>
    /\ pc \in {"retrieve", "chat", "ready"}
    /\ error \in {"none", "ChatBackendError"}

\* C1: once load has ended, the number of passages is the number of text
\* sections of the first min(max_articles, number of articles) articles, and
\* the passage at position (sections of the earlier articles) + (s - 1) is
\* section s of its article with that article's title: document order, then
\* section order, positions 0..count-1 each used once.
C1_LoadFlattens ==
    pc # "load" =>
        /\ Len(docs) = SectionTotal(doc, Included)
        /\ \A a \in 1..Included :
            \A s \in 1..Len(doc[a].FullText) :
                docs[SectionTotal(doc, a - 1) + s]
                    = [title |-> doc[a].Title, text |-> doc[a].FullText[s]]

\* C1 witness: three articles of which max_articles = 1 keeps the first, 90
\* passages titled "A".
C1_Witness ==
    /\ pc = "ready"
    /\ Len(doc) = 3
    /\ max_arg = 1
    /\ Len(docs) = 90
    /\ Len(doc[2].FullText) = 1
    /\ docs[90] = [title |-> "A", text |-> <<1, 90>>]

\* C2: when every embed call of the build has returned, there is one vector
\* per passage and the vector at position p is the backend's vector for the
\* text of the passage at position p, whatever batch it went in.
C2_EmbedOrder ==
    EmbedComplete =>
        /\ Len(docs_embs) = Len(docs)
        /\ \A j \in 1..Len(docs) : docs_embs[j] = DocEmbedding(j)

\* C2 witness: 91 passages embedded in two batches, of 90 and of 1.
C2_Witness ==
    /\ EmbedComplete
    /\ Len(docs) = 91
    /\ embed_calls = <<[off |-> 0, n |-> 90], [off |-> 90, n |-> 1]>>
    /\ docs_embs[91] = DocEmbedding(91)

\* C3: the passages a retrieve returns are passages at positions the index
\* search returned for the query, the search returned at most retrieve_top_k
\* positions, and the result is no longer than min(rerank_top_k,
\* retrieve_top_k, number of passages).
C3_RerankRoundTrip ==
    RetrieveReturned =>
        /\ Len(doc_ids) <= retrieve_top_k
        /\ { docs_retrieved[j] : j \in 1..Len(docs_retrieved) }
              \subseteq { docs[doc_ids[c] + 1] : c \in 1..Len(doc_ids) }
        /\ Len(docs_retrieved)
              <= Min(rerank_top_k, Min(retrieve_top_k, Len(docs)))

\* C3 witness: 750 passages, the search returned the positions 749 down to
\* 250 and the retrieve returned 100 passages.
C3_Witness ==
    /\ RetrieveReturned
    /\ Len(docs) = 750
    /\ doc_ids[1] = 749
    /\ Len(docs_retrieved) = 100

\* C4: the k of every index search is at most the number of vectors the
\* index holds.
C4_KnnClamped ==
    knn_k # -1 => knn_k <= Len(index.labels)

\* C5: the i-th passage a retrieve returns is the passage (title and text) at
\* position P[r_i], P the positions the index search returned and r_i the
\* candidate index of the i-th rerank result; there are as many passages as
\* rerank results.
C5_RerankOrder ==
    RetrieveReturned =>
        /\ Len(docs_retrieved) = Len(rerank_results)
        /\ \A j \in 1..Len(rerank_results) :
            LET p == doc_ids[rerank_results[j].index + 1]
            IN  docs_retrieved[j]
                    = [title |-> docs[p + 1].title, text |-> docs[p + 1].text]

\* C5 witness: the rerank returned the candidates in reverse input order, so
\* the result is the reverse of the end of the search's candidate order.
C5_Witness ==
    /\ RetrieveReturned
    /\ Len(docs) = 750
    /\ doc_ids[1] = 749
    /\ \A j \in 1..Len(rerank_results) :
        rerank_results[j].index = Len(doc_ids) - j
    /\ Len(docs_retrieved) = rerank_top_k
    /\ docs_retrieved[1] = docs[doc_ids[retrieve_top_k] + 1]
    /\ docs_retrieved[2] = docs[doc_ids[retrieve_top_k - 1] + 1]

\* C6: an embed call of the build that has not returned its vectors has
\* failed and ended the build: it is the last call made, no index exists and
\* nothing more happens; no batch offset is sent twice.
C6_EmbedFailureAborts ==
    /\ Len(embed_calls) # BatchCount(Len(docs_embs)) =>
        /\ pc = "failed"
        /\ error = "EmbeddingBackendError"
        /\ Len(embed_calls) = BatchCount(Len(docs_embs)) + 1
        /\ embed_calls[Len(embed_calls)].off = Len(docs_embs)
        /\ index = NoIndex
    /\ \A j, k \in 1..Len(embed_calls) :
        j < k => embed_calls[j].off < embed_calls[k].off
    /\ (pc = "failed" /\ error = "EmbeddingBackendError") =>
        /\ index = NoIndex
        /\ ~ENABLED Next

\* C6 witness: 250 passages, the second of three batches failed.
C6_Witness ==
    /\ pc = "failed"
    /\ error = "EmbeddingBackendError"
    /\ Len(docs) = 250
    /\ Len(embed_calls) = 2
    /\ Len(docs_embs) = 90

\* What C7 asks of one step.
RetrieveStepFrame ==
    pc \in {"retrieve", "knn", "rerank"} =>
        /\ UNCHANGED <<docs, docs_embs, docs_len, index>>
        /\ error' # "none" =>
            /\ pc' = "ready"
            /\ docs_retrieved' = <<>>
            /\ retrieve_log' = retrieve_log
            /\ retrieved_docs' = retrieved_docs
            /\ chat_calls' = chat_calls

\* C7: no step of a retrieve changes the passages, their vectors or the
\* index; a step in which a backend call of the retrieve fails ends the turn
\* with no result returned, nothing added to the grounding documents and no
\* further chat call.
C7_RetrieveFrame == [][RetrieveStepFrame]_vars

\* C7 witness: the first retrieve of a turn returned, the rerank of the
\* second failed.
C7_Witness ==
    /\ pc = "ready"
    /\ error = "RerankBackendError"
    /\ Len(retrieve_log) = 1
    /\ Len(queries) = 2
    /\ Len(chat_calls) = 1
    /\ index.init
    /\ Len(index.items) = Len(docs)

RECURSIVE ConcatResults(_)
\* The results of the logged retrieve calls, one after the other.
ConcatResults(log) ==
    IF log = <<>> THEN <<>> ELSE log[1].result \o ConcatResults(Tail(log))

\* C8: the first chat call of a turn asks for search queries; retrieve calls
\* are made for the returned queries in their order, one each; the final chat
\* call gets the results of the retrieve calls one after the other when
\* queries were returned, and no documents, after no retrieve call, when none
\* was.
C8_TurnOrder ==
    pc # "failed" =>
        /\ Len(chat_calls) <= 2
        /\ chat_calls # <<>> => chat_calls[1].kind = "search_queries_only"
        /\ pc \in {"retrieve", "knn", "rerank", "chat"} => Len(chat_calls) = 1
        /\ Len(retrieve_log) <= Len(search_queries)
        /\ \A j \in 1..Len(retrieve_log) :
            retrieve_log[j].query = search_queries[j].text
        /\ search_queries = <<>> =>
            /\ pc \notin {"retrieve", "knn", "rerank"}
            /\ query_emb = <<>>
            /\ knn_k = -1
            /\ rerank_n = -1
        /\ Len(chat_calls) = 2 =>
            /\ chat_calls[2].kind = "final"
            /\ Len(retrieve_log) = Len(search_queries)
            /\ chat_calls[2].given = (search_queries # <<>>)
            /\ chat_calls[2].documents = ConcatResults(retrieve_log)

\* C8 witness: a turn with two queries whose retrieve calls returned
\* different results, and the final chat call made.
C8_Witness ==
    /\ pc = "ready"
    /\ Len(chat_calls) = 2
    /\ Len(search_queries) = 2
    /\ retrieve_log[1].query = "q1"
    /\ retrieve_log[2].query = "q2"
    /\ retrieve_log[1].result # retrieve_log[2].result
    /\ Len(chat_calls[2].documents) = 2 * rerank_top_k

\* C9: with max_articles = 0 the build raises nothing, and once it has ended
\* the passages are none, no embed call was made, and the index exists and
\* holds no vector.
C9_EmptyBuild ==
    max_arg = 0 =>
        /\ error \notin {"IndexError", "EmbeddingBackendError"}
        /\ pc \notin {"load", "embed", "embed_loop", "index"} =>
            /\ docs = <<>>
            /\ embed_calls = <<>>
            /\ index.init
            /\ index.items = <<>>

\* C10: no embed call while load runs; the embed calls are the batches at
\* offsets 0, batch_size, 2 * batch_size, ... in this order; no index before
\* embed has ended; and an index that holds vectors holds, after every batch
\* has returned, one vector per passage, the vector of the passage at
\* position p under label p.
C10_BuildOrder ==
    /\ pc = "load" => embed_calls = <<>> /\ docs_embs = <<>>
    /\ pc \in {"load", "embed", "embed_loop"} => index = NoIndex
    /\ \A j \in 1..Len(embed_calls) :
        /\ embed_calls[j].off = (j - 1) * batch_size
        /\ embed_calls[j].n = Min(batch_size, Len(docs) - embed_calls[j].off)
    /\ index.items # <<>> =>
        /\ Len(embed_calls) = BatchCount(Len(docs))
        /\ Len(index.items) = Len(docs)
        /\ Len(index.labels) = Len(docs)
        /\ \A j \in 1..Len(docs) :
            /\ index.labels[j] = j - 1
            /\ index.items[j] = DocEmbedding(j)

\* C10 witness: 181 passages indexed after three batches.
C10_Witness ==
    /\ pc = "ready"
    /\ Len(docs) = 181
    /\ Len(embed_calls) = 3
    /\ embed_calls[3] = [off |-> 180, n |-> 1]
    /\ index.labels[181] = 180

====
